---- MODULE Spec2Model ----
(***************************************************************************)
(* PPO.train_batch (src/models/ppo.py) as a state machine: the rollout     *)
(* generator, the consumer that pulls its tuples in batches, and the       *)
(* optimizer steps Lightning applies to every batch.                       *)
(*                                                                         *)
(* Floats are fixed-point integers: the real x is the integer x * Scale.   *)
(* With gamma = lam = 1/2 and segments of at most four steps every product *)
(* below is a multiple of Scale before it is divided, so nothing is        *)
(* rounded.                                                                *)
(***************************************************************************)
EXTENDS Integers, Sequences, FiniteSets, TLC

\* ---------------------------------------------------------------- bounds
steps_per_epoch == 3
batch_size == 2
nb_optim_iters == 2
MaxEpisodeLen == 3
MaxEpochs == 2
MaxSeqLen == 3

\* ------------------------------------------------------------ fixed point
Scale == 2 ^ 10

Mul(a, b) == (a * b) \div Scale

Actions == {0, 1}

VARIABLES
    \* hyperparameters stored by __init__
    max_episode_len, gamma, lam,
    \* rollout buffers and statistics of the PPO object
    batch_states, batch_actions, batch_adv, batch_qvals, batch_logp,
    ep_rewards, ep_values, epoch_rewards,
    episode_step, avg_ep_reward, avg_ep_len, avg_step_reward,
    state,
    \* the environment and the two parameter sets
    env_state, actor_params, critic_params,
    \* frame of the live train_batch generator
    gen, step, done, steps_before_cutoff, yield_idx,
    \* the consumer: DataLoader batch under construction, batch under optimization
    pending, batch, opt_idx, logged, epochs,
    \* history of the current train_batch invocation
    rec, closes, yielded, start_empty, opt_log, batch_base, stats_at_start,
    \* a direct call of discount_rewards, calc_advantage or actor_loss
    fn, fn_in, fn_out

hyper == <<max_episode_len, gamma, lam>>
buffers == <<batch_states, batch_actions, batch_adv, batch_qvals, batch_logp>>
episode == <<ep_rewards, ep_values, epoch_rewards, episode_step>>
stats == <<avg_ep_reward, avg_ep_len, avg_step_reward>>
agentenv == <<state, env_state>>
params == <<actor_params, critic_params>>
frame == <<gen, step, done, steps_before_cutoff, yield_idx>>
consumer == <<pending, batch, opt_idx, logged, epochs>>
history == <<rec, closes, yielded, start_empty, opt_log, batch_base, stats_at_start>>
call == <<fn, fn_in, fn_out>>
vars == <<hyper, buffers, episode, stats, agentenv, params, frame, consumer, history,
          call>>

\* ---------------------------------------------------------------- helpers
RECURSIVE SeqSum(_)
SeqSum(s) == IF s = <<>> THEN 0 ELSE Head(s) + SeqSum(Tail(s))

Reverse(s) == [i \in 1..Len(s) |-> s[Len(s) + 1 - i]]

\* Python's s[:-1]
DropLast(s) == IF s = <<>> THEN <<>> ELSE SubSeq(s, 1, Len(s) - 1)

Min2(a, b) == IF a < b THEN a ELSE b

Ratio(n, d) == [num |-> n, den |-> d]

\* ------------------------------------------------ environment and agent
EnvReset == 0

EnvNext(s, a) == s + 1

EnvReward(s, a) == (a + 1) * Scale

Critic(s, cp) == (1 + s + cp) * Scale

LogProb(s, a, ap) == 0 - (1 + a + 2 * s + ap) * Scale

\* ------------------------------------------------------ discount_rewards
RECURSIVE discount_loop(_, _, _, _, _)
discount_loop(rewards, discount, i, sum_r, cumul_reward) ==
    IF i = 0 THEN cumul_reward
    ELSE LET s == Mul(sum_r, discount) + rewards[i]
         IN discount_loop(rewards, discount, i - 1, s, Append(cumul_reward, s))

discount_rewards_noreverse(rewards, discount) ==
    discount_loop(rewards, discount, Len(rewards), 0, <<>>)

discount_rewards(rewards, discount) ==
    Reverse(discount_loop(rewards, discount, Len(rewards), 0, <<>>))

calc_advantage_nobootstrap(rewards, values, last_value) ==
    LET rews == Append(rewards, last_value)
        vals == Append(values, 0)
        delta == [i \in 1..(Len(rews) - 1) |->
                     rews[i] + Mul(gamma, vals[i + 1]) - vals[i]]
    IN discount_rewards(delta, Mul(gamma, lam))

calc_advantage_gamma(rewards, values, last_value) ==
    LET rews == Append(rewards, last_value)
        vals == Append(values, last_value)
        delta == [i \in 1..(Len(rews) - 1) |->
                     rews[i] + Mul(gamma, vals[i + 1]) - vals[i]]
    IN discount_rewards(delta, gamma)

calc_advantage_short(rewards, values, last_value) ==
    LET rews == Append(rewards, last_value)
        vals == Append(values, last_value)
        delta == [i \in 1..(Len(rews) - 1) |->
                     rews[i] + Mul(gamma, vals[i + 1]) - vals[i]]
    IN DropLast(discount_rewards(delta, Mul(gamma, lam)))

calc_advantage(rewards, values, last_value) ==
    LET rews == Append(rewards, last_value)
        vals == Append(values, last_value)
        delta == [i \in 1..(Len(rews) - 1) |->
                     rews[i] + Mul(gamma, vals[i + 1]) - vals[i]]
    IN discount_rewards(delta, Mul(gamma, lam))

\* ------------------------------------------- pieces of the train_batch loop
EpochEnd(s) == s = steps_per_epoch - 1

Terminal_late(epr) == Len(epr) = max_episode_len + 1

Terminal(epr) == Len(epr) = max_episode_len

CloseCond_always(epoch_end, d, terminal) == TRUE

CloseCond(epoch_end, d, terminal) == epoch_end \/ d \/ terminal

BootstrapCond_nodone(epoch_end, d, terminal) == terminal \/ epoch_end

BootstrapCond(epoch_end, d, terminal) == (terminal \/ epoch_end) /\ ~d

LastValue_afterreset(boot, post_state, cp) ==
    IF boot THEN Critic(EnvReset, cp) ELSE 0

LastValue(boot, post_state, cp) ==
    IF boot THEN Critic(post_state, cp) ELSE 0

SegmentQvals_nobootstrap(epr, last_value) == discount_rewards(epr, gamma)

SegmentQvals_keeplast(epr, last_value) ==
    discount_rewards(Append(epr, last_value), gamma)

SegmentQvals(epr, last_value) ==
    DropLast(discount_rewards(Append(epr, last_value), gamma))

YieldCond_everystep(epoch_end) == TRUE

YieldCond(epoch_end) == epoch_end

ZipLen_short == Len(batch_states) - 1

ZipLen ==
    Min2(Len(batch_states), Min2(Len(batch_actions), Min2(Len(batch_logp),
         Min2(Len(batch_qvals), Len(batch_adv)))))

ZipItem(i) ==
    <<batch_states[i], batch_actions[i], batch_logp[i], batch_qvals[i], batch_adv[i]>>

optimizer_step_iters_once == nb_optim_iters - 1

optimizer_step_iters == nb_optim_iters

ConsumerReady == opt_idx = 2

\* ------------------------------------------------------------------ Init
\* The PPO object after __init__, hyperparameters aside.
InitObject ==
    /\ batch_states = <<>> /\ batch_actions = <<>> /\ batch_adv = <<>>
    /\ batch_qvals = <<>> /\ batch_logp = <<>>
    /\ ep_rewards = <<>> /\ ep_values = <<>> /\ epoch_rewards = <<>>
    /\ episode_step = 0
    /\ avg_ep_reward = Ratio(0, 1)
    /\ avg_ep_len = Ratio(0, 1)
    /\ avg_step_reward = Ratio(0, 1)
    /\ env_state = EnvReset
    /\ state = EnvReset
    /\ actor_params = 0 /\ critic_params = 0
    /\ gen = "none" /\ step = 0 /\ done = FALSE
    /\ steps_before_cutoff = 0 /\ yield_idx = 0
    /\ pending = <<>> /\ batch = <<>> /\ opt_idx = 2
    /\ logged = <<>> /\ epochs = 0
    /\ rec = <<>> /\ closes = <<>> /\ yielded = <<>>
    /\ start_empty = TRUE /\ opt_log = <<>> /\ batch_base = <<0, 0>>
    /\ stats_at_start = <<Ratio(0, 1), Ratio(0, 1), Ratio(0, 1)>>

NoCall == fn = "none" /\ fn_in = <<>> /\ fn_out = [returned |-> FALSE]

Init ==
    /\ max_episode_len \in 1..MaxEpisodeLen
    /\ gamma = Scale \div 2
    /\ lam = Scale \div 2
    /\ InitObject
    /\ NoCall


\* --------------------------------------------------------------- consumer
\* One tuple handed to the DataLoader: the batch is complete at batch_size.
Deliver(item) ==
    /\ yielded' = Append(yielded, item)
    /\ IF Len(pending) + 1 = batch_size
       THEN /\ batch' = Append(pending, item)
            /\ pending' = <<>>
            /\ opt_idx' = 0
            /\ opt_log' = <<>>
            /\ batch_base' = <<actor_params, critic_params>>
       ELSE /\ pending' = Append(pending, item)
            /\ UNCHANGED <<batch, opt_idx, opt_log, batch_base>>

\* ExperienceSourceDataset.__iter__ calls train_batch and the first next()
\* enters the for loop.
TrainBatchStart ==
    /\ gen \in {"none", "finished"}
    /\ ConsumerReady
    /\ epochs < MaxEpochs
    /\ gen' = "running"
    /\ step' = 0
    /\ yield_idx' = 0
    /\ epochs' = epochs + 1
    /\ rec' = <<>> /\ closes' = <<>> /\ yielded' = <<>>
    /\ start_empty' = (/\ batch_states = <<>> /\ batch_actions = <<>>
                       /\ batch_logp = <<>> /\ batch_qvals = <<>>
                       /\ batch_adv = <<>>)
    /\ batch' = <<>> /\ opt_log' = <<>>
    /\ stats_at_start' = stats
    /\ UNCHANGED <<hyper, buffers, episode, stats, agentenv, params,
                   done, steps_before_cutoff, pending, opt_idx, logged, batch_base,
                   call>>

\* One iteration of the for loop, lines 195-237, up to the `if epoch_end:` test.
Step ==
    /\ gen = "running"
    /\ step < steps_per_epoch
    /\ \E action \in Actions, d \in BOOLEAN :
        LET log_prob == LogProb(state, action, actor_params)
            value == Critic(state, critic_params)
            next_state == EnvNext(env_state, action)
            reward == EnvReward(env_state, action)
            epr == Append(ep_rewards, reward)
            epv == Append(ep_values, value)
            epoch_end == EpochEnd(step)
            terminal == Terminal(epr)
            close == CloseCond(epoch_end, d, terminal)
            boot == BootstrapCond(epoch_end, d, terminal)
            last_value == LastValue(boot, next_state, critic_params)
            sbc == IF boot THEN episode_step + 1 ELSE 0
        IN
        /\ done' = d
        /\ batch_states' = Append(batch_states, state)
        /\ batch_actions' = Append(batch_actions, action)
        /\ batch_logp' = Append(batch_logp, log_prob)
        /\ rec' = Append(rec, [state |-> state, action |-> action,
                               logp |-> log_prob, reward |-> reward,
                               value |-> value, seg |-> Len(closes) + 1,
                               ap |-> actor_params, cp |-> critic_params])
        /\ IF close
           THEN /\ steps_before_cutoff' = sbc
                /\ batch_qvals' = batch_qvals \o SegmentQvals(epr, last_value)
                /\ batch_adv' = batch_adv \o calc_advantage(epr, epv, last_value)
                /\ epoch_rewards' = Append(epoch_rewards, SeqSum(epr))
                /\ ep_rewards' = <<>>
                /\ ep_values' = <<>>
                /\ episode_step' = 0
                /\ env_state' = EnvReset
                /\ state' = EnvReset
                /\ closes' = Append(closes,
                      [done |-> d, terminal |-> terminal, epoch_end |-> epoch_end,
                       last_value |-> last_value, cp |-> critic_params,
                       at |-> Len(rec) + 1, len |-> Len(epr),
                       total |-> SeqSum(epr)])
           ELSE /\ ep_rewards' = epr
                /\ ep_values' = epv
                /\ episode_step' = episode_step + 1
                /\ env_state' = next_state
                /\ state' = next_state
                /\ UNCHANGED <<steps_before_cutoff, batch_qvals, batch_adv,
                               epoch_rewards, closes>>
        /\ IF YieldCond(epoch_end)
           THEN /\ gen' = "zip" /\ yield_idx' = 0 /\ step' = step
           ELSE /\ gen' = IF step + 1 < steps_per_epoch THEN "running" ELSE "finished"
                /\ step' = step + 1
                /\ yield_idx' = yield_idx
    /\ UNCHANGED <<hyper, stats, params, consumer, yielded, start_empty,
                   opt_log, batch_base, stats_at_start, call>>

\* Lines 251-273, run when the zip of line 240 is exhausted.
EpochStats ==
    LET asr == Ratio(SeqSum(epoch_rewards), steps_per_epoch)
        er == IF ~done THEN DropLast(epoch_rewards) ELSE epoch_rewards
        total_epoch_reward == SeqSum(er)
        nb_episodes == Len(er)
    IN
    /\ batch_states' = <<>> /\ batch_actions' = <<>> /\ batch_adv' = <<>>
    /\ batch_logp' = <<>> /\ batch_qvals' = <<>>
    /\ avg_step_reward' = asr
    /\ IF nb_episodes = 0
       THEN \* ZeroDivisionError at line 268
            /\ gen' = "raised"
            /\ UNCHANGED <<avg_ep_reward, avg_ep_len, epoch_rewards, step,
                           pending, batch, opt_idx, opt_log, batch_base>>
       ELSE /\ avg_ep_reward' = Ratio(total_epoch_reward, nb_episodes)
            /\ avg_ep_len' = Ratio(steps_per_epoch - steps_before_cutoff, nb_episodes)
            /\ epoch_rewards' = <<>>
            /\ step' = step + 1
            /\ IF step + 1 < steps_per_epoch
               THEN /\ gen' = "running"
                    /\ UNCHANGED <<pending, batch, opt_idx, opt_log, batch_base>>
               ELSE /\ gen' = "finished"
                    \* StopIteration: the DataLoader hands over a short last batch
                    /\ IF pending # <<>>
                       THEN /\ batch' = pending
                            /\ pending' = <<>>
                            /\ opt_idx' = 0
                            /\ opt_log' = <<>>
                            /\ batch_base' = <<actor_params, critic_params>>
                       ELSE UNCHANGED <<pending, batch, opt_idx, opt_log, batch_base>>
    /\ UNCHANGED <<hyper, ep_rewards, ep_values, episode_step, agentenv, params,
                   done, steps_before_cutoff, yield_idx, logged, epochs,
                   rec, closes, yielded, start_empty, stats_at_start, call>>

\* The head of `for ... in train_data` (line 248): reached after the last step
\* of the epoch and on every next() of the consumer.
Resume ==
    /\ \/ gen = "zip"
       \/ gen = "suspended" /\ ConsumerReady
    /\ IF yield_idx < ZipLen
       THEN /\ gen' = "suspended"
            /\ yield_idx' = yield_idx + 1
            /\ Deliver(ZipItem(yield_idx + 1))
            /\ UNCHANGED <<hyper, buffers, episode, stats, agentenv, params,
                           step, done, steps_before_cutoff, logged, epochs,
                           rec, closes, start_empty, stats_at_start, call>>
       ELSE EpochStats

\* optimizer_step, lines 365-371, called once per optimizer for the batch in
\* hand: nb_optim_iters times the closure (training_step on the batch) and a
\* step of that optimizer's parameters (configure_optimizers, lines 358-363).
OptimizerStep ==
    /\ opt_idx \in {0, 1}
    /\ gen \in {"suspended", "finished"}
    /\ LET n == optimizer_step_iters
           entry == [idx |-> opt_idx, data |-> batch]
       IN
       /\ opt_log' = opt_log \o [i \in 1..n |-> entry]
       /\ IF opt_idx = 0
          THEN actor_params' = actor_params + n /\ critic_params' = critic_params
          ELSE critic_params' = critic_params + n /\ actor_params' = actor_params
    /\ logged' = <<avg_ep_len, avg_ep_reward, avg_step_reward>>
    /\ opt_idx' = opt_idx + 1
    /\ UNCHANGED <<hyper, buffers, episode, stats, agentenv, frame,
                   pending, batch, epochs, rec, closes, yielded, start_empty,
                   batch_base, stats_at_start, call>>

\* The consumer stops pulling at a batch boundary and drops the generator:
\* nothing after the yield of line 249 runs.
Abandon ==
    /\ gen = "suspended"
    /\ ConsumerReady
    /\ pending = <<>>
    /\ gen' = "none"
    /\ UNCHANGED <<hyper, buffers, episode, stats, agentenv, params,
                   step, done, steps_before_cutoff, yield_idx, consumer, history,
                   call>>

\* The training run: the DataLoader pulls every epoch's generator until it
\* is exhausted.
Next ==
    \/ TrainBatchStart
    \/ Step
    \/ Resume
    \/ OptimizerStep

Spec == Init /\ [][Next]_vars

\* The same run with a consumer that may also stop pulling before the
\* generator is exhausted and iterate the dataset again later.
NextEarlyStop ==
    \/ TrainBatchStart
    \/ Step
    \/ Resume
    \/ OptimizerStep
    \/ Abandon

SpecEarlyStop == Init /\ [][NextEarlyStop]_vars


\* ------------------------------------------------------------ properties
\* The generator has run past its last yield (StopIteration or the exception).
FullyConsumed == gen \in {"finished", "raised"}

LastOfSegment(i) == i = Len(rec) \/ rec[i + 1].seg # rec[i].seg

\* Return-to-go and GAE of step i, written forwards over the recorded steps.
RECURSIVE ExpectedQval(_)
ExpectedQval(i) ==
    rec[i].reward
    + Mul(gamma, IF LastOfSegment(i) THEN closes[rec[i].seg].last_value
                 ELSE ExpectedQval(i + 1))

RECURSIVE ExpectedAdv(_)
ExpectedAdv(i) ==
    LET vnext == IF LastOfSegment(i) THEN closes[rec[i].seg].last_value
                 ELSE rec[i + 1].value
        delta == rec[i].reward + Mul(gamma, vnext) - rec[i].value
    IN delta + (IF LastOfSegment(i) THEN 0
                ELSE Mul(Mul(gamma, lam), ExpectedAdv(i + 1)))

\* C1: a fully consumed train_batch invocation that started with empty batch
\* buffers has taken exactly steps_per_epoch environment steps and yielded
\* exactly steps_per_epoch tuples, the i-th carrying the state, action and
\* log_prob of the i-th step and the qval and adv of that step in its segment;
\* the five batch lists have equal length when yielding starts.
C1_EpochYieldsRecordedSteps ==
    /\ (gen = "zip" /\ start_empty) =>
          /\ Len(batch_states) = steps_per_epoch
          /\ Len(batch_actions) = steps_per_epoch
          /\ Len(batch_logp) = steps_per_epoch
          /\ Len(batch_qvals) = steps_per_epoch
          /\ Len(batch_adv) = steps_per_epoch
    /\ (FullyConsumed /\ start_empty) =>
          /\ Len(rec) = steps_per_epoch
          /\ Len(yielded) = steps_per_epoch
          /\ \A i \in 1..Len(yielded) :
                yielded[i] = <<rec[i].state, rec[i].action, rec[i].logp,
                               ExpectedQval(i), ExpectedAdv(i)>>

C1_Witness ==
    /\ gen = "finished" /\ start_empty /\ epochs = 2
    /\ Len(yielded) = steps_per_epoch
    /\ Len(closes) = 2 /\ closes[1].len = 2 /\ ~closes[1].done

\* C2: a segment closed at a step where done is true uses bootstrap value 0
\* for qval and adv, whatever the critic returns, also when done coincides
\* with truncation and with the last step of the epoch.
C2_DoneBootstrapZero ==
    \A k \in 1..Len(closes) : closes[k].done => closes[k].last_value = 0

C2_Witness ==
    \E k \in 1..Len(closes) :
        /\ closes[k].done /\ closes[k].terminal /\ closes[k].epoch_end
        /\ Critic(EnvNext(rec[closes[k].at].state, rec[closes[k].at].action),
                  closes[k].cp) # 0
        /\ closes[k].last_value = 0

\* C3: a segment closed with done false (truncation or cutoff) bootstraps
\* from the critic's value of the state the closing step returned, not of
\* the state the reset puts in its place.
C3_BootstrapAtPostStepState ==
    \A k \in 1..Len(closes) :
        ~closes[k].done =>
            LET r == rec[closes[k].at]
            IN closes[k].last_value = Critic(EnvNext(r.state, r.action), r.cp)

C3_Witness ==
    /\ \E k \in 1..Len(closes) :
          /\ ~closes[k].done /\ closes[k].terminal /\ ~closes[k].epoch_end
          /\ closes[k].last_value # Critic(EnvReset, closes[k].cp)
    /\ \E k \in 1..Len(closes) :
          /\ ~closes[k].done /\ ~closes[k].terminal /\ closes[k].epoch_end
          /\ closes[k].last_value # Critic(EnvReset, closes[k].cp)

\* C4 (as claimed): after a close by cutoff alone the stored state and the
\* environment are still at the post-step state, the environment not reset.
C4_CutoffKeepsTrajectory ==
    (/\ gen = "zip" /\ closes # <<>>
     /\ closes[Len(closes)].epoch_end
     /\ ~closes[Len(closes)].done /\ ~closes[Len(closes)].terminal)
    => LET r == rec[Len(rec)]
       IN /\ state = EnvNext(r.state, r.action)
          /\ env_state = EnvNext(r.state, r.action)

\* C5 (as claimed): exactly one of done, terminal and epoch_end is true at
\* every segment close.
C5_ExactlyOneReason ==
    \A k \in 1..Len(closes) :
        LET c == closes[k]
            n == (IF c.done THEN 1 ELSE 0) + (IF c.terminal THEN 1 ELSE 0)
                 + (IF c.epoch_end THEN 1 ELSE 0)
        IN n = 1

\* C5 (amended): at least one of done, terminal and epoch_end is true at
\* every segment close, and a step at which none is true closes nothing.
C5_AtLeastOneReason ==
    /\ \A k \in 1..Len(closes) :
          closes[k].done \/ closes[k].terminal \/ closes[k].epoch_end
    /\ gen \in {"running", "zip"} =>
          Len(rec) = SeqSum([k \in 1..Len(closes) |-> closes[k].len])
                     + Len(ep_rewards)

C5_Witness ==
    \E k \in 1..Len(closes) :
        closes[k].done /\ closes[k].terminal /\ closes[k].epoch_end


\* Segments of the current invocation the claim C6 calls complete: closed by
\* natural termination or by truncation.
CompleteSegments == {k \in 1..Len(closes) : closes[k].done \/ closes[k].terminal}

RECURSIVE RecRewardSum(_)
RecRewardSum(i) == IF i = 0 THEN 0 ELSE rec[i].reward + RecRewardSum(i - 1)

TotalOf(S) == SeqSum([k \in 1..Len(closes) |->
                        IF k \in S THEN closes[k].total ELSE 0])

\* C6 (as claimed): at the end of a fully consumed epoch avg_ep_reward is the
\* mean total reward of the segments closed by natural termination or by
\* truncation, the final segment included unless closed by cutoff alone.
C6_AvgEpRewardOverCompleteSegments ==
    gen = "finished" =>
        avg_ep_reward.num * Cardinality(CompleteSegments)
            = TotalOf(CompleteSegments) * avg_ep_reward.den

\* C7 (as claimed): at the end of every fully consumed epoch avg_step_reward
\* is the sum of the rewards of that epoch's steps_per_epoch steps over
\* steps_per_epoch, with no reward of an earlier epoch in it.
C7_AvgStepRewardOfThisEpoch ==
    FullyConsumed =>
        avg_step_reward.num * steps_per_epoch
            = RecRewardSum(Len(rec)) * avg_step_reward.den

OptCount(idx) == Cardinality({i \in 1..Len(opt_log) : opt_log[i].idx = idx})

\* C8: once a batch has been optimized, exactly nb_optim_iters steps were
\* applied to the actor parameters and exactly nb_optim_iters to the critic
\* parameters, each computed from that batch, the actor steps leaving the
\* critic parameters alone and the reverse; no tuple is pulled meanwhile.
C8_OptimItersPerBatch ==
    /\ (opt_idx = 2 /\ batch # <<>>) =>
          /\ OptCount(0) = nb_optim_iters
          /\ OptCount(1) = nb_optim_iters
          /\ Len(opt_log) = 2 * nb_optim_iters
          /\ \A i \in 1..Len(opt_log) : opt_log[i].data = batch
          /\ actor_params = batch_base[1] + nb_optim_iters
          /\ critic_params = batch_base[2] + nb_optim_iters
    /\ opt_idx = 1 =>
          /\ OptCount(0) = nb_optim_iters
          /\ OptCount(1) = 0
          /\ actor_params = batch_base[1] + nb_optim_iters
          /\ critic_params = batch_base[2]
    /\ opt_idx = 0 => opt_log = <<>>

C8_Witness ==
    /\ opt_idx = 2 /\ Len(batch) = batch_size
    /\ Len(opt_log) = 2 * nb_optim_iters
    /\ actor_params > nb_optim_iters

\* C9: within one invocation every log_prob, value and bootstrap value is
\* computed under the same parameters, and no tuple is yielded before all
\* steps_per_epoch steps and their segment closes are done.
C9_NoUpdateDuringRollout ==
    /\ \A i \in 1..Len(rec) : rec[i].ap = rec[1].ap /\ rec[i].cp = rec[1].cp
    /\ \A k \in 1..Len(closes) : closes[k].cp = rec[1].cp
    /\ yielded # <<>> =>
          /\ Len(rec) = steps_per_epoch
          /\ ep_rewards = <<>>
    /\ gen \in {"running", "zip"} =>
          (rec # <<>> => actor_params = rec[1].ap /\ critic_params = rec[1].cp)

C9_Witness ==
    /\ gen = "finished" /\ epochs = 2
    /\ Len(rec) = steps_per_epoch
    /\ rec[1].ap > 0 /\ rec[1].cp > 0
    /\ Len(closes) >= 2

\* C10 (as claimed): the five batch lists are empty whenever an invocation
\* of train_batch starts stepping the environment.
C10_BuffersEmptyAtStart ==
    (gen = "running" /\ step = 0 /\ rec = <<>>) =>
        /\ batch_states = <<>> /\ batch_actions = <<>> /\ batch_logp = <<>>
        /\ batch_qvals = <<>> /\ batch_adv = <<>>


\* ------------------------------------------- direct calls of the estimators
SeqsUpTo(S, n) == UNION {[1..k -> S] : k \in 1..n}

RewardVals == {0 - Scale, 0, Scale}

ValueVals == {0, Scale}

Discounts == {0, Scale \div 2, Scale}

MainIdle == /\ max_episode_len = 1 /\ InitObject

InitDiscountCall ==
    /\ fn = "discount_rewards"
    /\ gamma = Scale \div 2 /\ lam = Scale \div 2
    /\ fn_in \in [rewards : SeqsUpTo(RewardVals, MaxSeqLen), discount : Discounts]

InitAdvantageCall ==
    /\ fn = "calc_advantage"
    /\ gamma \in {Scale \div 2, Scale}
    /\ lam \in Discounts
    /\ \E k \in 1..MaxSeqLen :
          fn_in \in [rewards : [1..k -> RewardVals], values : [1..k -> ValueVals],
                     last_value : ValueVals]

\* torch.clamp(x, lo, hi).
Clamp(x, lo, hi) == IF x < lo THEN lo ELSE IF x > hi THEN hi ELSE x

SurrogateTerm_unclipped(ratio, adv, clip_ratio) == Mul(ratio, adv)

\* One element of torch.min(ratio * adv, clip_adv).
SurrogateTerm(ratio, adv, clip_ratio) ==
    LET clip_adv == Mul(Clamp(ratio, Scale - clip_ratio, Scale + clip_ratio), adv)
    IN Min2(Mul(ratio, adv), clip_adv)

\* actor_loss from the ratios exp(logp - logp_old) of the batch elements:
\* minus the mean of the surrogate terms, as an exact fraction.
actor_loss(ratio, adv, clip_ratio) ==
    Ratio(0 - SeqSum([i \in 1..Len(ratio) |->
                         SurrogateTerm(ratio[i], adv[i], clip_ratio)]),
          Len(ratio))

\* Probability ratios (positive) and advantages of a batch element.
RatioVals == {Scale \div 2, (3 * Scale) \div 4, Scale, (5 * Scale) \div 4,
              (3 * Scale) \div 2, 2 * Scale}
AdvVals == {0 - Scale, 0, Scale}

InitActorLossCall ==
    /\ fn = "actor_loss"
    /\ gamma = Scale \div 2 /\ lam = Scale \div 2
    /\ \E k \in 1..batch_size :
          fn_in \in [ratio : [1..k -> RatioVals], adv : [1..k -> AdvVals],
                     clip_ratio : {Scale \div 4}]

InitCalls ==
    /\ MainIdle
    /\ fn_out = [returned |-> FALSE]
    /\ \/ InitDiscountCall
       \/ InitAdvantageCall
       \/ InitActorLossCall

DiscountRewardsCall ==
    /\ fn = "discount_rewards" /\ ~fn_out.returned
    /\ fn_out' = [returned |-> TRUE,
                  value |-> discount_rewards(fn_in.rewards, fn_in.discount)]
    /\ UNCHANGED <<hyper, buffers, episode, stats, agentenv, params, frame,
                   consumer, history, fn, fn_in>>

CalcAdvantageCall ==
    /\ fn = "calc_advantage" /\ ~fn_out.returned
    /\ fn_out' = [returned |-> TRUE,
                  value |-> calc_advantage(fn_in.rewards, fn_in.values,
                                           fn_in.last_value)]
    /\ UNCHANGED <<hyper, buffers, episode, stats, agentenv, params, frame,
                   consumer, history, fn, fn_in>>

ActorLossCall ==
    /\ fn = "actor_loss" /\ ~fn_out.returned
    /\ fn_out' = [returned |-> TRUE,
                  value |-> actor_loss(fn_in.ratio, fn_in.adv, fn_in.clip_ratio)]
    /\ UNCHANGED <<hyper, buffers, episode, stats, agentenv, params, frame,
                   consumer, history, fn, fn_in>>

NextCalls ==
    \/ DiscountRewardsCall
    \/ CalcAdvantageCall
    \/ ActorLossCall

SpecCalls == InitCalls /\ [][NextCalls]_vars

\* C11: for a non-empty reward list discount_rewards returns a list of the
\* same length with out[t] = rewards[t] + discount * out[t+1], out past the
\* end being 0; so [r] maps to [r], discount 0 returns the rewards, and
\* [1,1,1] with discount 0.5 gives [1.75, 1.5, 1.0].
C11_DiscountRecursion ==
    (fn = "discount_rewards" /\ fn_out.returned) =>
        LET r == fn_in.rewards
            d == fn_in.discount
            out == fn_out.value
        IN /\ Len(out) = Len(r)
           /\ \A t \in 1..Len(r) :
                 out[t] = r[t] + Mul(d, IF t = Len(r) THEN 0 ELSE out[t + 1])
           /\ Len(r) = 1 => out = r
           /\ d = 0 => out = r
           /\ (r = <<Scale, Scale, Scale>> /\ d = Scale \div 2) =>
                 out = <<(7 * Scale) \div 4, (3 * Scale) \div 2, Scale>>

C11_Witness ==
    /\ fn = "discount_rewards" /\ fn_out.returned
    /\ fn_in.rewards = <<Scale, Scale, Scale>> /\ fn_in.discount = Scale \div 2
    /\ fn_out.value = <<(7 * Scale) \div 4, (3 * Scale) \div 2, Scale>>


\* C12: with lam = 1 the advantage of every step is the qval train_batch
\* attaches to it (return-to-go with the bootstrap) minus the step's value;
\* with bootstrap 0 that is discount_rewards(rewards, gamma)[t] - values[t].
C12_Lam1AdvIsQvalMinusValue ==
    (fn = "calc_advantage" /\ fn_out.returned /\ lam = Scale) =>
        LET r == fn_in.rewards
            v == fn_in.values
            b == fn_in.last_value
            adv == fn_out.value
        IN /\ Len(adv) = Len(r)
           /\ \A t \in 1..Len(r) : adv[t] = SegmentQvals(r, b)[t] - v[t]
           /\ b = 0 =>
                 \A t \in 1..Len(r) : adv[t] = discount_rewards(r, gamma)[t] - v[t]

C12_Witness ==
    /\ fn = "calc_advantage" /\ fn_out.returned /\ lam = Scale
    /\ gamma = Scale \div 2
    /\ Len(fn_in.rewards) = 3
    /\ fn_in.last_value # 0
    /\ \E t \in 1..3 : fn_in.values[t] # 0
    /\ fn_out.value[1] = SegmentQvals(fn_in.rewards, fn_in.last_value)[1]
                            - fn_in.values[1]

\* One-step TD residual of step t of the call in fn_in.
Delta(t) ==
    LET r == fn_in.rewards
        v == fn_in.values
    IN r[t] + Mul(gamma, IF t = Len(r) THEN fn_in.last_value ELSE v[t + 1]) - v[t]

\* C13: calc_advantage returns one advantage per real step with
\* adv[t] = delta[t] + gamma * lam * adv[t+1], adv past the end 0, the
\* bootstrap entering only as the value after the last step; with lam = 0
\* the result is the TD residuals.
C13_GaeRecursion ==
    (fn = "calc_advantage" /\ fn_out.returned) =>
        LET adv == fn_out.value
            n == Len(fn_in.rewards)
        IN /\ Len(adv) = n
           /\ \A t \in 1..n :
                 adv[t] = Delta(t) + Mul(Mul(gamma, lam),
                                         IF t = n THEN 0 ELSE adv[t + 1])
           /\ lam = 0 => \A t \in 1..n : adv[t] = Delta(t)

C13_Witness ==
    /\ fn = "calc_advantage" /\ fn_out.returned /\ lam = 0
    /\ Len(fn_in.rewards) = 3 /\ fn_in.last_value # 0
    /\ fn_in.rewards[3] # 0
    /\ fn_out.value[3] = Delta(3)
    /\ fn_out.value[1] # 0


\* Element i of the actor_loss call has its ratio inside the clip interval.
InClipRange(i) ==
    /\ fn_in.ratio[i] >= Scale - fn_in.clip_ratio
    /\ fn_in.ratio[i] <= Scale + fn_in.clip_ratio

\* The clamp bound on the side of ratio x.
ClampBound(x) ==
    IF x < Scale - fn_in.clip_ratio THEN Scale - fn_in.clip_ratio
    ELSE Scale + fn_in.clip_ratio

\* Element i is outside the interval and the min selects the clipped term.
ClippedSelected(i) ==
    /\ ~InClipRange(i)
    /\ Mul(ClampBound(fn_in.ratio[i]), fn_in.adv[i])
          <= Mul(fn_in.ratio[i], fn_in.adv[i])

\* The term the claim gives for element i.
ClaimedTerm(i) ==
    IF ClippedSelected(i) THEN Mul(ClampBound(fn_in.ratio[i]), fn_in.adv[i])
    ELSE Mul(fn_in.ratio[i], fn_in.adv[i])

\* Other ratios beyond the same clamp bound as element i's.
SameSide(i) ==
    {x \in RatioVals : /\ x < Scale - fn_in.clip_ratio \/ x > Scale + fn_in.clip_ratio
                       /\ ClampBound(x) = ClampBound(fn_in.ratio[i])}

\* C14: the surrogate term of an element whose ratio is inside
\* [1 - clip_ratio, 1 + clip_ratio] is ratio * adv, so the loss is the
\* unclipped loss when all are; where the clipped term is selected with the
\* ratio outside, the term is the clamp bound times adv and the loss does
\* not change with that ratio.
C14_ClipSaturates ==
    (fn = "actor_loss" /\ fn_out.returned) =>
        LET n == Len(fn_in.ratio)
            c == fn_in.clip_ratio
        IN /\ fn_out.value = Ratio(0 - SeqSum([i \in 1..n |-> ClaimedTerm(i)]), n)
           /\ (\A i \in 1..n : InClipRange(i)) =>
                 fn_out.value =
                    Ratio(0 - SeqSum([i \in 1..n |->
                                         Mul(fn_in.ratio[i], fn_in.adv[i])]), n)
           /\ \A i \in 1..n : ClippedSelected(i) =>
                 \A x \in SameSide(i) :
                    actor_loss([fn_in.ratio EXCEPT ![i] = x], fn_in.adv, c)
                       = fn_out.value

C14_Witness ==
    /\ fn = "actor_loss" /\ fn_out.returned
    /\ Len(fn_in.ratio) = 2
    /\ InClipRange(1) /\ fn_in.ratio[1] # Scale /\ fn_in.adv[1] # 0
    /\ ClippedSelected(2) /\ fn_in.adv[2] # 0
    /\ fn_in.ratio[2] = 2 * Scale
    /\ fn_out.value.num = 0 - (Mul(fn_in.ratio[1], fn_in.adv[1])
                                 + Mul(Scale + fn_in.clip_ratio, fn_in.adv[2]))


\* The generator is between its first step and the code after its last yield.
InEpoch == gen \in {"running", "zip", "suspended"}

\* C15: every closed segment has between 1 and max_episode_len steps, and
\* after every processed step the open segment has fewer than
\* max_episode_len.
C15_SegmentLengthBounded ==
    /\ \A k \in 1..Len(closes) :
          closes[k].len >= 1 /\ closes[k].len <= max_episode_len
    /\ Len(ep_rewards) < max_episode_len

C15_Witness ==
    /\ max_episode_len = 2
    /\ Len(closes) = 2
    /\ closes[1].len = 2 /\ closes[1].terminal
    /\ ~closes[1].done /\ ~closes[1].epoch_end
    /\ closes[2].len = 1 /\ closes[2].epoch_end

\* Steps of this invocation that lie in closed segments, and the recorded
\* steps of segment k.
ClosedSteps == IF closes = <<>> THEN 0 ELSE closes[Len(closes)].at

SegStart(k) == closes[k].at - closes[k].len + 1

SegEnd(k) == closes[k].at

SegRewards(k) == [j \in 1..closes[k].len |-> rec[SegStart(k) + j - 1].reward]

RECURSIVE GammaPow(_)
GammaPow(n) == IF n = 0 THEN Scale ELSE Mul(gamma, GammaPow(n - 1))

\* sum over k from i to the segment's last step of gamma^(k-i) * reward[k]
RECURSIVE ReturnToGo(_, _, _)
ReturnToGo(i, k, last) ==
    IF k > last THEN 0
    ELSE Mul(GammaPow(k - i), rec[k].reward) + ReturnToGo(i, k + 1, last)

\* C16: the qval of step t of a segment of length T closed with bootstrap b
\* is the sum of gamma^(k-t) * reward[k] over the rest of the segment plus
\* gamma^(T-t) * b; a segment produces exactly T qvals, and with b = 0 they
\* are discount_rewards(rewards, gamma).
C16_QvalClosedForm ==
    InEpoch =>
        LET off == Len(batch_qvals) - ClosedSteps
        IN /\ start_empty => off = 0
           /\ \A k \in 1..Len(closes) :
                 /\ \A i \in SegStart(k)..SegEnd(k) :
                       batch_qvals[off + i] =
                          ReturnToGo(i, i, SegEnd(k))
                          + Mul(GammaPow(SegEnd(k) - i + 1), closes[k].last_value)
                 /\ closes[k].last_value = 0 =>
                       SubSeq(batch_qvals, off + SegStart(k), off + SegEnd(k))
                          = discount_rewards(SegRewards(k), gamma)

C16_Witness ==
    /\ InEpoch /\ max_episode_len = 2
    /\ Len(closes) = 2 /\ Len(batch_qvals) = 3
    /\ closes[1].len = 2 /\ closes[1].last_value # 0
    /\ closes[2].len = 1 /\ closes[2].done
    /\ batch_qvals[1] = rec[1].reward + Mul(gamma, rec[2].reward)
                           + Mul(Mul(gamma, gamma), closes[1].last_value)
    /\ batch_qvals[3] = rec[3].reward


\* The segments of this epoch counted in the episode averages: all of them,
\* except the final one when the last step did not return done.
CountedSegments ==
    {k \in 1..Len(closes) : k < Len(closes) \/ closes[k].done}

LenOf(S) == SeqSum([k \in 1..Len(closes) |-> IF k \in S THEN closes[k].len ELSE 0])

\* C17 (as claimed): at the end of a fully consumed epoch with a counted
\* episode, steps_before_cutoff is the length of the final segment when it
\* is excluded and 0 otherwise, steps_per_epoch - steps_before_cutoff is
\* the summed length of the counted segments, and avg_ep_len and
\* avg_ep_reward are the means of the lengths and total rewards of exactly
\* those segments.
C17_AvgEpLenOverCountedSegments ==
    gen = "finished" =>
        LET n == Cardinality(CountedSegments)
        IN /\ n >= 1
           /\ steps_before_cutoff =
                 (IF Len(closes) \in CountedSegments THEN 0
                  ELSE closes[Len(closes)].len)
           /\ steps_per_epoch - steps_before_cutoff = LenOf(CountedSegments)
           /\ avg_ep_len.num * n = LenOf(CountedSegments) * avg_ep_len.den
           /\ avg_ep_reward.num * n = TotalOf(CountedSegments) * avg_ep_reward.den

\* C18 (as claimed): the statistics fail with a division by zero exactly when
\* the only segment closed in the epoch is the final one with done false;
\* at the failure all steps_per_epoch tuples have been yielded, the batch
\* lists are cleared and epoch_rewards is not.
C18_ZeroDivisionIffNoCountedEpisode ==
    FullyConsumed =>
        /\ gen = "raised" <=> (Len(closes) = 1 /\ ~closes[1].done)
        /\ gen = "finished" => (done \/ Len(closes) >= 2)
        /\ gen = "raised" =>
              /\ Len(yielded) = steps_per_epoch
              /\ batch_states = <<>> /\ batch_actions = <<>> /\ batch_logp = <<>>
              /\ batch_qvals = <<>> /\ batch_adv = <<>>
              /\ epoch_rewards # <<>>


\* What training_step logs from the statistics held when this invocation
\* of train_batch started.
LoggedAtStart == <<stats_at_start[2], stats_at_start[1], stats_at_start[3]>>

\* C19: the three statistics are written only once the last tuple of the
\* epoch has been yielded and a further item was requested; while a tuple of
\* the epoch is still to be pulled they, and what training_step logged from
\* them for a batch of this epoch, are the values held when the epoch
\* started: the previous epoch's, or 0 in the first epoch.
C19_StatsWrittenAfterLastYield ==
    /\ stats # stats_at_start =>
          /\ FullyConsumed
          /\ Len(rec) = steps_per_epoch
          /\ Len(yielded) >= Len(rec)
    /\ InEpoch =>
          /\ stats = stats_at_start
          /\ epochs = 1 => stats = <<Ratio(0, 1), Ratio(0, 1), Ratio(0, 1)>>
          /\ (batch # <<>> /\ opt_idx \in {1, 2}) => logged = LoggedAtStart

C19_Witness ==
    /\ gen = "suspended" /\ epochs = 2
    /\ yield_idx < ZipLen
    /\ batch # <<>> /\ opt_idx = 2
    /\ stats_at_start[1] # Ratio(0, 1)
    /\ stats_at_start[3] # Ratio(0, 1)
    /\ stats = stats_at_start
    /\ logged = LoggedAtStart

\* C20: episode_step, ep_rewards and ep_values have one entry per step of
\* the open segment, and the batch lists of states, actions and log
\* probabilities are longer than those of qvals and advantages by exactly
\* the open segment.
C20_CountersAndListsConsistent ==
    /\ episode_step = Len(ep_rewards)
    /\ Len(ep_rewards) = Len(ep_values)
    /\ Len(batch_states) = Len(batch_actions)
    /\ Len(batch_actions) = Len(batch_logp)
    /\ Len(batch_logp) = Len(batch_qvals) + Len(ep_rewards)
    /\ Len(batch_logp) = Len(batch_adv) + Len(ep_rewards)

C20_Witness ==
    /\ gen = "running" /\ epochs = 2
    /\ episode_step = 1 /\ Len(ep_rewards) = 1 /\ Len(ep_values) = 1
    /\ Len(batch_states) = 2
    /\ Len(batch_qvals) = 1 /\ Len(batch_adv) = 1

====
